---- MODULE Spec2Model ----
(***************************************************************************)
(* Model of the browser-side helpers of history-in-your-pocket:            *)
(*   static/js/bookmarks.js  localStorage-backed bookmark list             *)
(*   static/js/quiz.js       quiz fetch / render / grade flow              *)
(*   static/js/main.js       setDateToTodayInput                           *)
(* JavaScript values are modelled as tagged records, the stored string as  *)
(* a sequence of JSON tokens, and JSON.stringify / JSON.parse as a         *)
(* serializer and a recursive-descent parser over those tokens.            *)
(***************************************************************************)
EXTENDS Integers, Sequences, FiniteSets, TLC

VARIABLES
    localStorage,   \* the item under BOOKMARK_KEY: [has, raw]
    last,           \* the last bookmark call: [op, arg, before, out, v]
    tabs,           \* per browser context: position inside addBookmark
    added,          \* events whose add returned true since the last clear
    raced,          \* an add wrote a list it had read before another write
    page,           \* ids of the elements the document holds
    area,           \* content of #quiz-area
    dateValue,      \* value of the date input
    calls,          \* the loadQuiz calls: position and what each did
    issued,         \* number of loadQuiz calls made
    lastArrived,    \* the call whose fetch was answered last (0: none)
    lastWriter,     \* the call that replaced the display last (0: none)
    graded,         \* the last gradeQuiz run
    dom             \* the last operation that looked up a page element

bookmarkVars == <<localStorage, last, tabs, added, raced>>
quizVars == <<page, area, dateValue, calls, issued, lastArrived, lastWriter, graded, dom>>
vars == <<localStorage, last, tabs, added, raced,
          page, area, dateValue, calls, issued, lastArrived, lastWriter, graded, dom>>

\* ------------------------------------------------------------------------
\* Bounds of the model
\* ------------------------------------------------------------------------
MaxList == 4        \* longest bookmark list an add may still extend
MaxTabs == 2        \* browser contexts sharing the storage key
MaxCalls == 2       \* loadQuiz calls made on one page
MaxCards == 2       \* result cards a display may collect
MaxQuestions == 2   \* questions of a quiz

\* ------------------------------------------------------------------------
\* JavaScript values
\* ------------------------------------------------------------------------
Undefined == [t |-> "undefined"]
JNull == [t |-> "null"]
JBool(b) == [t |-> "bool", b |-> b]
JNum(n) == [t |-> "num", n |-> n]
JStr(s) == [t |-> "str", s |-> s]
JArr(a) == [t |-> "arr", a |-> a]
JObj(m) == [t |-> "obj", m |-> m]
Member(k, v) == [k |-> k, v |-> v]

\* obj[key] for a plain data object: the member's value, or undefined
MemberOf(m, key) ==
    IF \E i \in 1..Len(m) : m[i].k = key
    THEN m[CHOOSE i \in 1..Len(m) : m[i].k = key].v
    ELSE Undefined

\* b.key : reading a property of null or undefined throws a TypeError;
\* a primitive or an array has no own property of these names
CanRead(b) == b.t \notin {"null", "undefined"}
GetProp(b, key) == IF b.t = "obj" THEN MemberOf(b.m, key) ELSE Undefined

\* a === b ; objects and arrays compare by identity, and a parsed value is
\* never identical to a caller's value
StrictEq(a, b) ==
    /\ a.t = b.t
    /\ CASE a.t = "num" -> a.n = b.n
         [] a.t = "str" -> a.s = b.s
         [] a.t = "bool" -> a.b = b.b
         [] a.t \in {"null", "undefined"} -> TRUE
         [] OTHER -> FALSE

\* ------------------------------------------------------------------------
\* JSON text: a sequence of tokens
\* ------------------------------------------------------------------------
P(c) == [p |-> c]
Lit(v) == [lit |-> v]
IsLit(tk) == "lit" \in DOMAIN tk
IsP(tk, c) == ("p" \in DOMAIN tk) /\ tk.p = c

RECURSIVE Stringify(_)
RECURSIVE StringifyElems(_, _)
RECURSIVE StringifyMembers(_, _, _)

\* JSON.stringify(value)
Stringify(v) ==
    CASE v.t = "arr" -> <<P("[")>> \o StringifyElems(v.a, 1) \o <<P("]")>>
      [] v.t = "obj" -> <<P("{")>> \o StringifyMembers(v.m, 1, TRUE) \o <<P("}")>>
      [] v.t = "undefined" -> <<Lit(JNull)>>
      [] OTHER -> <<Lit(v)>>

StringifyElems(a, i) ==
    IF i > Len(a) THEN <<>>
    ELSE (IF i > 1 THEN <<P(",")>> ELSE <<>>)
         \o Stringify(a[i]) \o StringifyElems(a, i + 1)

\* members whose value is undefined are left out
StringifyMembers(m, i, first) ==
    IF i > Len(m) THEN <<>>
    ELSE IF m[i].v.t = "undefined" THEN StringifyMembers(m, i + 1, first)
    ELSE (IF first THEN <<>> ELSE <<P(",")>>)
         \o <<Lit(JStr(m[i].k)), P(":")>> \o Stringify(m[i].v)
         \o StringifyMembers(m, i + 1, FALSE)

ParseFail == [ok |-> FALSE, v |-> JNull, i |-> 0]
ParseOk(v, i) == [ok |-> TRUE, v |-> v, i |-> i]

\* a repeated key keeps its first position and takes the later value
SetMember(m, k, v) ==
    IF \E i \in 1..Len(m) : m[i].k = k
    THEN [i \in 1..Len(m) |-> IF m[i].k = k THEN Member(k, v) ELSE m[i]]
    ELSE Append(m, Member(k, v))

RECURSIVE ParseValue(_, _)
RECURSIVE ParseElems(_, _, _)
RECURSIVE ParseMembers(_, _, _)

ParseValue(toks, i) ==
    IF i > Len(toks) THEN ParseFail
    ELSE IF IsLit(toks[i]) THEN ParseOk(toks[i].lit, i + 1)
    ELSE IF IsP(toks[i], "[") THEN
        IF i + 1 <= Len(toks) /\ IsP(toks[i + 1], "]")
        THEN ParseOk(JArr(<<>>), i + 2)
        ELSE ParseElems(toks, i + 1, <<>>)
    ELSE IF IsP(toks[i], "{") THEN
        IF i + 1 <= Len(toks) /\ IsP(toks[i + 1], "}")
        THEN ParseOk(JObj(<<>>), i + 2)
        ELSE ParseMembers(toks, i + 1, <<>>)
    ELSE ParseFail

ParseElems(toks, i, acc) ==
    LET r == ParseValue(toks, i) IN
    IF ~r.ok \/ r.i > Len(toks) THEN ParseFail
    ELSE IF IsP(toks[r.i], ",") THEN ParseElems(toks, r.i + 1, Append(acc, r.v))
    ELSE IF IsP(toks[r.i], "]") THEN ParseOk(JArr(Append(acc, r.v)), r.i + 1)
    ELSE ParseFail

ParseMembers(toks, i, acc) ==
    IF i + 1 > Len(toks) THEN ParseFail
    ELSE IF ~(IsLit(toks[i]) /\ toks[i].lit.t = "str" /\ IsP(toks[i + 1], ":"))
    THEN ParseFail
    ELSE LET r == ParseValue(toks, i + 2) IN
         IF ~r.ok \/ r.i > Len(toks) THEN ParseFail
         ELSE IF IsP(toks[r.i], ",")
              THEN ParseMembers(toks, r.i + 1, SetMember(acc, toks[i].lit.s, r.v))
         ELSE IF IsP(toks[r.i], "}")
              THEN ParseOk(JObj(SetMember(acc, toks[i].lit.s, r.v)), r.i + 1)
         ELSE ParseFail

\* JSON.parse(text): the value, or a SyntaxError (ok = FALSE)
JsonParse(toks) ==
    LET r == ParseValue(toks, 1) IN
    IF r.ok /\ r.i = Len(toks) + 1 THEN r ELSE ParseFail

\* ------------------------------------------------------------------------
\* bookmarks.js
\* ------------------------------------------------------------------------
NoItem == [has |-> FALSE, raw |-> <<>>]
Item(raw) == [has |-> TRUE, raw |-> raw]

\* loadBookmarks(): getItem gives null when the key is absent; !raw is also
\* true of the empty string
loadBookmarks(store) ==
    IF ~store.has \/ store.raw = <<>> THEN JArr(<<>>)
    ELSE LET r == JsonParse(store.raw) IN
         IF r.ok THEN r.v ELSE JArr(<<>>)

\* faulty variant: only the newest record is written
saveBookmarksNewestOnly(list) ==
    Item(Stringify(IF list.t = "arr" /\ Len(list.a) > 1
                   THEN JArr(<<list.a[1]>>) ELSE list))

\* saveBookmarks(list)
saveBookmarks(list) == Item(Stringify(list))

\* faulty variant: the date is compared with the event's title
SameTitleDateTypo(b, eventObj) ==
    /\ StrictEq(GetProp(b, "title"), GetProp(eventObj, "title"))
    /\ StrictEq(GetProp(b, "date"), GetProp(eventObj, "title"))

\* the callback of list.some: b.title === eventObj.title && b.date === eventObj.date
SameTitleDate(b, eventObj) ==
    /\ StrictEq(GetProp(b, "title"), GetProp(eventObj, "title"))
    /\ StrictEq(GetProp(b, "date"), GetProp(eventObj, "date"))

RECURSIVE SomeFrom(_, _, _)
\* list.some(...) from index i: "true", "false", or "throw" when the callback
\* reads a property of null before a match is found
SomeFrom(a, i, eventObj) ==
    IF i > Len(a) THEN "false"
    ELSE IF ~CanRead(a[i]) THEN "throw"
    ELSE IF SameTitleDate(a[i], eventObj) THEN "true"
    ELSE SomeFrom(a, i + 1, eventObj)

\* faulty variant: the scan skips the newest record
ExistsSkipFirst(list, eventObj) ==
    IF list.t # "arr" THEN "throw" ELSE SomeFrom(list.a, 2, eventObj)

\* const exists = list.some(...): a value that is not an array has no some()
Exists(list, eventObj) ==
    IF list.t # "arr" THEN "throw" ELSE SomeFrom(list.a, 1, eventObj)

\* faulty variant: push instead of unshift
UnshiftAsPush(list, eventObj) == JArr(list.a \o <<eventObj>>)

\* list.unshift(eventObj)
Unshift(list, eventObj) == JArr(<<eventObj>> \o list.a)

Call(op, arg, before, out, v) ==
    [op |-> op, arg |-> arg, before |-> before, out |-> out, v |-> v]

Event(title, date, note) ==
    JObj(<<Member("title", JStr(title)), Member("date", JStr(date)),
           Member("note", JStr(note))>>)

Titles == {"A", "B"}
Dates == {"d1", "d2"}
Notes == {"n1", "n2"}
Events == {Event(ti, d, n) : ti \in Titles, d \in Dates, n \in Notes}

\* the list an add may still extend (bound of the model; the code has no limit)
Room(list) == IF list.t = "arr" THEN Len(list.a) < MaxList ELSE TRUE

\* addBookmark(eventObj), run to completion in one browser context
addBookmark(eventObj) ==
    LET list == loadBookmarks(localStorage)
        exists == Exists(list, eventObj)
    IN  /\ CASE exists = "throw" ->
                  /\ last' = Call("add", eventObj, localStorage, "throw", Undefined)
                  /\ UNCHANGED <<localStorage, added>>
             [] exists = "true" ->
                  /\ last' = Call("add", eventObj, localStorage, "return", JBool(FALSE))
                  /\ UNCHANGED <<localStorage, added>>
             [] OTHER ->
                  /\ Room(list)
                  /\ localStorage' = saveBookmarks(Unshift(list, eventObj))
                  /\ last' = Call("add", eventObj, localStorage, "return", JBool(TRUE))
                  /\ added' = added \cup {eventObj}
        /\ UNCHANGED <<tabs, raced>>

\* clearBookmarks()
clearBookmarks ==
    /\ localStorage' = NoItem
    /\ last' = Call("clear", Undefined, localStorage, "return", Undefined)
    /\ added' = {}
    /\ raced' = FALSE
    /\ tabs' = [t \in DOMAIN tabs |->
                  IF tabs[t].pc = "loaded" THEN [tabs[t] EXCEPT !.stale = TRUE]
                  ELSE tabs[t]]

\* a caller reading the list: loadBookmarks()
listBookmarks ==
    /\ last' = Call("list", Undefined, localStorage, "return",
                    loadBookmarks(localStorage))
    /\ UNCHANGED <<localStorage, tabs, added, raced>>

IdleTab == [pc |-> "idle", eventObj |-> Undefined, list |-> JArr(<<>>), stale |-> FALSE]
NoCall == Call("none", Undefined, NoItem, "return", Undefined)

\* texts the storage key may hold
Garbage == P("?")
ListText(a) == Stringify(JArr(a))
RawSamples ==
    { <<>>,                                             \* ""
      <<Garbage>>,                                      \* not JSON
      <<P("[")>>,                                       \* truncated
      <<P("["), Lit(JNum(5)), P(","), P("]")>>,         \* [5,]
      <<Lit(JNull)>>,                                   \* null
      <<Lit(JNum(5))>>,                                 \* 5
      <<Lit(JBool(TRUE))>>,                             \* true
      <<Lit(JStr("A"))>>,                               \* "A"
      <<P("{"), P("}")>>,                               \* {}
      Stringify(Event("A", "d1", "n1")),                \* a record, not a list
      ListText(<<>>),                                   \* []
      ListText(<<JNull>>),                              \* [null]
      ListText(<<JNum(5)>>),                            \* [5]
      ListText(<<Event("B", "d2", "n1"), JNull>>),
      ListText(<<Event("A", "d1", "n1")>>),
      ListText(<<Event("B", "d1", "n2"), Event("A", "d1", "n1")>>) }

\* ------------------------------------------------------------------------
\* Several browser contexts (tabs) sharing the storage key: each storage
\* access is atomic, a tab's addBookmark is not
\* ------------------------------------------------------------------------
TabEvents == {Event("A", "d1", n) : n \in Notes} \cup {Event("B", "d1", "n1")}

MarkStale(tbs, writer) ==
    [t \in DOMAIN tbs |->
        IF t # writer /\ tbs[t].pc = "loaded" THEN [tbs[t] EXCEPT !.stale = TRUE]
        ELSE tbs[t]]

\* addBookmark line 17: const list = loadBookmarks()
TabAddLoad(t, eventObj) ==
    /\ tabs[t].pc = "idle"
    /\ tabs' = [tabs EXCEPT ![t] = [pc |-> "loaded", eventObj |-> eventObj,
                                    list |-> loadBookmarks(localStorage),
                                    stale |-> FALSE]]
    /\ UNCHANGED <<localStorage, last, added, raced>>

\* addBookmark lines 19-23 on the list read earlier
TabAddStore(t) ==
    LET list == tabs[t].list
        eventObj == tabs[t].eventObj
        exists == Exists(list, eventObj)
    IN  /\ tabs[t].pc = "loaded"
        /\ CASE exists = "throw" ->
                  /\ last' = Call("add", eventObj, localStorage, "throw", Undefined)
                  /\ tabs' = [tabs EXCEPT ![t] = IdleTab]
                  /\ UNCHANGED <<localStorage, added, raced>>
             [] exists = "true" ->
                  /\ last' = Call("add", eventObj, localStorage, "return", JBool(FALSE))
                  /\ tabs' = [tabs EXCEPT ![t] = IdleTab]
                  /\ UNCHANGED <<localStorage, added, raced>>
             [] OTHER ->
                  /\ Room(list)
                  /\ localStorage' = saveBookmarks(Unshift(list, eventObj))
                  /\ last' = Call("add", eventObj, localStorage, "return", JBool(TRUE))
                  /\ added' = added \cup {eventObj}
                  /\ raced' = (raced \/ tabs[t].stale)
                  /\ tabs' = [MarkStale(tabs, t) EXCEPT ![t] = IdleTab]

\* clearBookmarks() in tab t
TabClear(t) ==
    /\ tabs[t].pc = "idle"
    /\ clearBookmarks

\* ------------------------------------------------------------------------
\* quiz.js
\* ------------------------------------------------------------------------
FAIL_TEXT == "Could not load quiz."
QUIZ_AREA == "quiz-area"

\* option texts are sequences of characters
DigitChars == <<"0", "1", "2", "3", "4", "5", "6", "7", "8", "9">>
IsDigit(c) == \E i \in 1..Len(DigitChars) : DigitChars[i] = c
DigitVal(c) == (CHOOSE i \in 1..Len(DigitChars) : DigitChars[i] = c) - 1

RECURSIVE SkipSpace(_, _)
SkipSpace(s, i) ==
    IF i <= Len(s) /\ s[i] = " " THEN SkipSpace(s, i + 1) ELSE i

RECURSIVE ReadDigits(_, _, _)
\* the value of the longest run of digits from index i on, after acc
ReadDigits(s, i, acc) ==
    IF i <= Len(s) /\ IsDigit(s[i])
    THEN ReadDigits(s, i + 1, 10 * acc + DigitVal(s[i]))
    ELSE acc

NaN == [nan |-> TRUE, n |-> 0]
\* parseInt(text): leading blanks, an optional sign, then digits; what
\* follows the digits is ignored; no digit gives NaN
parseInt(s) ==
    LET i == SkipSpace(s, 1)
        signed == i <= Len(s) /\ s[i] \in {"-", "+"}
        j == IF signed THEN i + 1 ELSE i
    IN  IF j <= Len(s) /\ IsDigit(s[j])
        THEN [nan |-> FALSE,
              n |-> IF signed /\ s[i] = "-" THEN 0 - ReadDigits(s, j, 0)
                    ELSE ReadDigits(s, j, 0)]
        ELSE NaN

\* parseInt(sel.value) === q.correct
EqualsCorrect(value, correct) ==
    LET v == parseInt(value) IN ~v.nan /\ v.n = correct

NoSubmit == [has |-> FALSE, questions |-> <<>>]
EmptyArea ==
    [text |-> "", notice |-> FALSE, boxes |-> <<>>, submit |-> NoSubmit,
     cards |-> <<>>]

\* container.innerText = "Could not load quiz."
FailArea == [EmptyArea EXCEPT !.text = FAIL_TEXT]

\* one card of the form: title, description, one radio input per option
QBox(idx, q) ==
    [title |-> <<idx, q.question>>,
     desc |-> q.description,
     inputs |-> [j \in 1..Len(q.options) |->
                    [name |-> q.id, value |-> q.options[j],
                     id |-> <<q.id, q.options[j]>>, checked |-> FALSE]],
     correct |-> q.correct]

\* faulty variant: the old children are kept and the new ones appended
renderQuizNoClear(ar, questions) ==
    IF questions = <<>> THEN [ar EXCEPT !.notice = TRUE]
    ELSE [ar EXCEPT
            !.boxes = [i \in 1..Len(questions) |-> QBox(i, questions[i])],
            !.submit = [has |-> TRUE, questions |-> questions]]

\* faulty variant: no early return for an empty list
renderQuizNoReturn(ar, questions) ==
    [EmptyArea EXCEPT
        !.notice = (questions = <<>>),
        !.boxes = [i \in 1..Len(questions) |-> QBox(i, questions[i])],
        !.submit = [has |-> TRUE, questions |-> questions]]

\* renderQuiz(questions) on a container that exists: its new content
renderQuiz(ar, questions) ==
    IF questions = <<>> THEN [EmptyArea EXCEPT !.notice = TRUE]
    ELSE [EmptyArea EXCEPT
            !.boxes = [i \in 1..Len(questions) |-> QBox(i, questions[i])],
            !.submit = [has |-> TRUE, questions |-> questions]]

\* the inputs of the document, in document order
RECURSIVE InputsFrom(_, _)
InputsFrom(boxes, b) ==
    IF b > Len(boxes) THEN <<>> ELSE boxes[b].inputs \o InputsFrom(boxes, b + 1)

\* document.querySelector(`input[name="<name>"]:checked`): the first match
Checked(ar, name) ==
    LET ins == InputsFrom(ar.boxes, 1)
        hits == {k \in 1..Len(ins) : ins[k].name = name /\ ins[k].checked}
    IN  IF hits = {} THEN [found |-> FALSE, value |-> <<>>]
        ELSE [found |-> TRUE,
              value |-> ins[CHOOSE k \in hits : \A m \in hits : k <= m].value]

\* faulty variant: a question without a selection scores as well
gradeCountsUnselected(ar, questions, i) ==
    Cardinality({k \in i..Len(questions) :
        LET sel == Checked(ar, questions[k].id) IN
        ~sel.found \/ EqualsCorrect(sel.value, questions[k].correct)})

RECURSIVE gradeFrom(_, _, _)
\* the forEach of gradeQuiz from question i on: the score it adds
gradeFrom(ar, questions, i) ==
    IF i > Len(questions) THEN 0
    ELSE LET sel == Checked(ar, questions[i].id) IN
         (IF sel.found /\ EqualsCorrect(sel.value, questions[i].correct)
          THEN 1 ELSE 0) + gradeFrom(ar, questions, i + 1)

\* the result card of gradeQuiz
ResultCard(ar, questions) ==
    [score |-> gradeFrom(ar, questions, 1), total |-> Len(questions)]

\* a click on option o of box b: the input is checked and the other inputs
\* of its radio group are not
ClickInput(ar, b, o) ==
    LET name == ar.boxes[b].inputs[o].name IN
    [ar EXCEPT !.boxes =
        [x \in 1..Len(ar.boxes) |->
            [ar.boxes[x] EXCEPT !.inputs =
                [y \in 1..Len(ar.boxes[x].inputs) |->
                    IF ar.boxes[x].inputs[y].name = name
                    THEN [ar.boxes[x].inputs[y] EXCEPT !.checked = (x = b /\ y = o)]
                    ELSE ar.boxes[x].inputs[y]]]]]

\* the option of each displayed question the user has checked (0: none)
Picked(ar) ==
    [b \in 1..Len(ar.boxes) |->
        IF \E o \in 1..Len(ar.boxes[b].inputs) : ar.boxes[b].inputs[o].checked
        THEN CHOOSE o \in 1..Len(ar.boxes[b].inputs) : ar.boxes[b].inputs[o].checked
        ELSE 0]

\* the quiz payloads
Question(id, question, description, options, correct) ==
    [id |-> id, question |-> question, description |-> description,
     options |-> options, correct |-> correct]
QuestionPool ==
    << Question("q1", "When?", "", << <<"7">>, <<"1", "2">> >>, 12),
       Question("q2", "Which?", "hint", << <<" ", "7", "a">>, <<"a">>, <<"-", "3">> >>, 7),
       Question("q3", "Who?", "", << <<"-", "3">>, <<>> >>, 0 - 3),
       Question("q4", "Where?", "hint", << <<"a">>, <<"b">> >>, 0) >>
\* the option positions of the pool's questions
OptionSlots ==
    1..(CHOOSE n \in 0..8 :
          /\ \A k \in 1..Len(QuestionPool) : Len(QuestionPool[k].options) <= n
          /\ \E k \in 1..Len(QuestionPool) : Len(QuestionPool[k].options) = n)
IsQuiz(qs) == \A i, j \in 1..Len(qs) : i # j => qs[i].id # qs[j].id
RECURSIVE PoolSeq(_)
\* the pool's questions at the positions of S, in pool order
PoolSeq(S) ==
    IF S = {} THEN <<>>
    ELSE LET k == CHOOSE x \in S : \A y \in S : x <= y
         IN  <<QuestionPool[k]>> \o PoolSeq(S \ {k})
Reversed(qs) == [i \in 1..Len(qs) |-> qs[Len(qs) + 1 - i]]
\* quizzes of at most MaxQuestions questions, in pool order and reversed
Quizzes ==
    LET picks == {S \in SUBSET (1..Len(QuestionPool)) : Cardinality(S) <= MaxQuestions}
    IN  {PoolSeq(S) : S \in picks} \cup {Reversed(PoolSeq(S)) : S \in picks}

\* the bodies a success response carries: parsed, data.questions may be absent
NoBody == [wellFormed |-> FALSE, hasQuestions |-> FALSE, questions |-> <<>>]
Body(qs) == [wellFormed |-> TRUE, hasQuestions |-> TRUE, questions |-> qs]
Bodies ==
    {NoBody, [wellFormed |-> TRUE, hasQuestions |-> FALSE, questions |-> <<>>],
     Body(<<>>), Body(<<QuestionPool[1]>>), Body(<<QuestionPool[2], QuestionPool[1]>>)}

NoDay == "null"
\* the URL of loadQuiz: mmdd is set only when given
QuizUrl(mmdd, count) ==
    [path |-> "/api/quiz",
     mmdd |-> IF mmdd # NoDay THEN <<mmdd>> ELSE <<>>,
     count |-> count]
NoUrl == QuizUrl(NoDay, 0)
DEFAULT_COUNT == 5

\* a loadQuiz call: where it stands, how its request ended (cause), what it
\* did to the display (did), whether its promise was rejected (threw)
CallAt(pc, url, cause, did, threw, qs) ==
    [pc |-> pc, url |-> url, cause |-> cause, did |-> did, threw |-> threw,
     questions |-> qs]
NewCall == CallAt("new", NoUrl, "none", "none", FALSE, <<>>)
Fetching(url) == CallAt("fetch", url, "none", "none", FALSE, <<>>)
Parsing == CallAt("json", NoUrl, "ok", "none", FALSE, <<>>)
Done(cause, did, threw, qs) == CallAt("done", NoUrl, cause, did, threw, qs)

NoGrade == [via |-> "none", questions |-> <<>>, shown |-> <<>>, picked |-> <<>>,
            card |-> [score |-> 0, total |-> 0]]
NoDom == [op |-> "none", missing |-> FALSE, threw |-> FALSE]
Dom(op, missing, threw) == [op |-> op, missing |-> missing, threw |-> threw]

\* loadQuiz(mmdd, count) up to its first await
LoadQuiz(mmdd, count) ==
    /\ issued < MaxCalls
    /\ issued' = issued + 1
    /\ calls' = [calls EXCEPT ![issued + 1] = Fetching(QuizUrl(mmdd, count))]
    /\ UNCHANGED <<page, area, dateValue, lastArrived, lastWriter, graded, dom>>

\* fetch is answered with a success status: loadQuiz goes on to await res.json()
FetchOk(c) ==
    /\ calls[c].pc = "fetch"
    /\ calls' = [calls EXCEPT ![c] = Parsing]
    /\ lastArrived' = c
    /\ UNCHANGED <<page, area, dateValue, issued, lastWriter, graded, dom>>

\* fetch is answered with another status: lines 7-9
FetchNotOk(c) ==
    /\ calls[c].pc = "fetch"
    /\ lastArrived' = c
    /\ IF QUIZ_AREA \in page
       THEN /\ area' = FailArea
            /\ calls' = [calls EXCEPT ![c] = Done("notok", "message", FALSE, <<>>)]
            /\ lastWriter' = c
            /\ dom' = Dom("loadQuiz", FALSE, FALSE)
       ELSE /\ calls' = [calls EXCEPT ![c] = Done("notok", "none", TRUE, <<>>)]
            /\ dom' = Dom("loadQuiz", TRUE, TRUE)
            /\ UNCHANGED <<area, lastWriter>>
    /\ UNCHANGED <<page, dateValue, issued, graded>>

\* the request itself fails: await fetch(url) throws, loadQuiz has no handler
FetchReject(c) ==
    /\ calls[c].pc = "fetch"
    /\ calls' = [calls EXCEPT ![c] = Done("netfail", "none", TRUE, <<>>)]
    /\ UNCHANGED <<page, area, dateValue, issued, lastArrived, lastWriter, graded, dom>>

\* res.json() gives the body: renderQuiz(data.questions || [])
JsonOk(c, body) ==
    LET questions == IF body.hasQuestions THEN body.questions ELSE <<>> IN
    /\ calls[c].pc = "json"
    /\ body.wellFormed
    /\ IF QUIZ_AREA \in page
       THEN /\ area' = renderQuiz(area, questions)
            /\ calls' = [calls EXCEPT ![c] = Done("ok", "render", FALSE, questions)]
            /\ lastWriter' = c
            /\ dom' = Dom("renderQuiz", FALSE, FALSE)
       ELSE /\ calls' = [calls EXCEPT ![c] = Done("ok", "none", FALSE, questions)]
            /\ dom' = Dom("renderQuiz", TRUE, FALSE)
            /\ UNCHANGED <<area, lastWriter>>
    /\ UNCHANGED <<page, dateValue, issued, lastArrived, graded>>

\* res.json() fails on the body: loadQuiz has no handler
JsonReject(c) ==
    /\ calls[c].pc = "json"
    /\ calls' = [calls EXCEPT ![c] = Done("badbody", "none", TRUE, <<>>)]
    /\ UNCHANGED <<page, area, dateValue, issued, lastArrived, lastWriter, graded, dom>>

\* the user checks a radio input of the displayed form
Check(b, o) ==
    /\ b \in 1..Len(area.boxes)
    /\ o \in 1..Len(area.boxes[b].inputs)
    /\ ~area.boxes[b].inputs[o].checked
    /\ area' = ClickInput(area, b, o)
    /\ UNCHANGED <<page, dateValue, calls, issued, lastArrived, lastWriter, graded, dom>>

\* gradeQuiz(questions): lines 73-83
gradeQuiz(via, questions) ==
    /\ graded' = [via |-> via, questions |-> questions,
                  shown |-> [b \in 1..Len(area.boxes) |-> area.boxes[b].inputs[1].name],
                  picked |-> Picked(area),
                  card |-> ResultCard(area, questions)]
    /\ IF QUIZ_AREA \in page
       THEN /\ Len(area.cards) < MaxCards
            /\ area' = [area EXCEPT !.cards = Append(@, ResultCard(area, questions))]
            /\ dom' = Dom("gradeQuiz", FALSE, FALSE)
       ELSE /\ dom' = Dom("gradeQuiz", TRUE, TRUE)
            /\ UNCHANGED area
    /\ UNCHANGED <<page, dateValue, calls, issued, lastArrived, lastWriter>>

\* a click on "Submit Quiz": submit.onclick = () => gradeQuiz(questions)
Submit ==
    /\ area.submit.has
    /\ gradeQuiz("submit", area.submit.questions)

\* renderQuiz(questions) called by the page: lines 16-17, then the rest
RenderQuizCall(questions) ==
    /\ IF QUIZ_AREA \in page
       THEN /\ area' = renderQuiz(area, questions)
            /\ dom' = Dom("renderQuiz", FALSE, FALSE)
       ELSE /\ dom' = Dom("renderQuiz", TRUE, FALSE)
            /\ UNCHANGED area
    /\ UNCHANGED <<page, dateValue, calls, issued, lastArrived, lastWriter, graded>>

\* gradeQuiz(questions) called by the page
GradeQuizCall(questions) == gradeQuiz("call", questions)

\* ------------------------------------------------------------------------
\* main.js
\* ------------------------------------------------------------------------
Instants ==
    {[date |-> "2024-03-07", time |-> "09:15:00"],
     [date |-> "2024-12-31", time |-> "23:59:59"]}
\* new Date().toISOString().slice(0, 10): the date part of <date>T<time>Z
IsoDate(now) == now.date

\* setDateToTodayInput(selector)
setDateToTodayInput(selector, now) ==
    /\ IF selector \in page
       THEN /\ dateValue' = IsoDate(now)
            /\ dom' = Dom("setDateToTodayInput", FALSE, FALSE)
       ELSE /\ dom' = Dom("setDateToTodayInput", TRUE, FALSE)
            /\ UNCHANGED dateValue
    /\ UNCHANGED <<page, area, calls, issued, lastArrived, lastWriter, graded>>

\* ------------------------------------------------------------------------
\* Specifications
\* ------------------------------------------------------------------------
BookmarksIdle ==
    /\ localStorage = NoItem
    /\ last = NoCall
    /\ tabs = [t \in 1..MaxTabs |-> IdleTab]
    /\ added = {}
    /\ raced = FALSE

QuizIdle ==
    /\ area = EmptyArea
    /\ dateValue = ""
    /\ calls = [c \in 1..MaxCalls |-> NewCall]
    /\ issued = 0
    /\ lastArrived = 0
    /\ lastWriter = 0
    /\ graded = NoGrade
    /\ dom = NoDom

FullPage == {QUIZ_AREA, "date"}

\* a fresh page: nothing stored, nothing loaded, both elements present
InitBookmarks == BookmarksIdle /\ QuizIdle /\ page = FullPage

NextBookmarks ==
    \/ \E e \in Events : addBookmark(e) /\ UNCHANGED quizVars
    \/ clearBookmarks /\ UNCHANGED quizVars
    \/ listBookmarks /\ UNCHANGED quizVars

\* one browser context, starting from an absent store
SpecBookmarks == InitBookmarks /\ [][NextBookmarks]_vars

InitStorage ==
    /\ localStorage \in {NoItem} \cup {Item(raw) : raw \in RawSamples}
    /\ last = NoCall
    /\ tabs = [t \in 1..MaxTabs |-> IdleTab]
    /\ added = {}
    /\ raced = FALSE
    /\ QuizIdle
    /\ page = FullPage

\* one browser context over a storage key holding any text
SpecStorage == InitStorage /\ [][NextBookmarks]_vars

NextTabs ==
    \/ \E t \in 1..MaxTabs, e \in TabEvents : TabAddLoad(t, e) /\ UNCHANGED quizVars
    \/ \E t \in 1..MaxTabs : TabAddStore(t) /\ UNCHANGED quizVars
    \/ \E t \in 1..MaxTabs : TabClear(t) /\ UNCHANGED quizVars

\* several tabs sharing the storage key
SpecTabs == InitBookmarks /\ [][NextTabs]_vars

Days == {NoDay, "03-07"}

NextQuiz ==
    \/ \E d \in Days : LoadQuiz(d, DEFAULT_COUNT) /\ UNCHANGED bookmarkVars
    \/ \E c \in 1..MaxCalls : FetchOk(c) /\ UNCHANGED bookmarkVars
    \/ \E c \in 1..MaxCalls : FetchNotOk(c) /\ UNCHANGED bookmarkVars
    \/ \E c \in 1..MaxCalls : FetchReject(c) /\ UNCHANGED bookmarkVars
    \/ \E c \in 1..MaxCalls, body \in Bodies : JsonOk(c, body) /\ UNCHANGED bookmarkVars
    \/ \E c \in 1..MaxCalls : JsonReject(c) /\ UNCHANGED bookmarkVars
    \/ \E b \in 1..MaxQuestions, o \in OptionSlots : Check(b, o) /\ UNCHANGED bookmarkVars
    \/ Submit /\ UNCHANGED bookmarkVars

\* the quiz flow of a page that holds #quiz-area
SpecQuiz == InitBookmarks /\ [][NextQuiz]_vars

NextGrade ==
    \/ \E qs \in Quizzes : RenderQuizCall(qs) /\ UNCHANGED bookmarkVars
    \/ \E b \in 1..MaxQuestions, o \in OptionSlots : Check(b, o) /\ UNCHANGED bookmarkVars
    \/ Submit /\ UNCHANGED bookmarkVars

\* rendering, answering and grading the quizzes of the pool
SpecGrade == InitBookmarks /\ [][NextGrade]_vars

DomQuizzes == {<<>>, <<QuestionPool[1]>>}
NextDom ==
    \/ \E sel \in FullPage, now \in Instants :
          setDateToTodayInput(sel, now) /\ UNCHANGED bookmarkVars
    \/ LoadQuiz(NoDay, DEFAULT_COUNT) /\ UNCHANGED bookmarkVars
    \/ \E c \in 1..MaxCalls : FetchNotOk(c) /\ UNCHANGED bookmarkVars
    \/ \E qs \in DomQuizzes : RenderQuizCall(qs) /\ UNCHANGED bookmarkVars
    \/ \E qs \in DomQuizzes : GradeQuizCall(qs) /\ UNCHANGED bookmarkVars
    \/ \E b \in 1..MaxQuestions, o \in OptionSlots : Check(b, o) /\ UNCHANGED bookmarkVars

\* the operations that look up a page element, on pages with and without it
InitDom == BookmarksIdle /\ QuizIdle /\ page \in SUBSET FullPage
SpecDom == InitDom /\ [][NextDom]_vars

\* ------------------------------------------------------------------------
\* Properties of the bookmark store
\* ------------------------------------------------------------------------
\* the list a reader of the store gets
Persisted(store) == loadBookmarks(store)
SameKey(b, e) ==
    /\ GetProp(b, "title") = GetProp(e, "title")
    /\ GetProp(b, "date") = GetProp(e, "date")
Holds(list, e) == \E i \in 1..Len(list.a) : SameKey(list.a[i], e)
HasDuplicate(list) ==
    \E i, j \in 1..Len(list.a) : i # j /\ SameKey(list.a[i], list.a[j])
ReturnedBool(b) == last.out = "return" /\ last.v = JBool(b)

\* C1: from an absent store, after any sequence of add and clear calls of one
\* browser context the persisted list never holds two records with the same
\* (title, date) pair.
C1_NoDuplicateTitleDate ==
    /\ Persisted(localStorage).t = "arr"
    /\ ~HasDuplicate(Persisted(localStorage))

\* C1 witness: every (title, date) pair is stored and a further add was refused
C1_Witness ==
    /\ last.op = "add"
    /\ ReturnedBool(FALSE)
    /\ Len(Persisted(localStorage).a) = Cardinality(Titles \X Dates)

\* C2: an add of a record whose (title, date) pair is already stored returns
\* false and leaves the persisted text, hence the list, its order and its
\* length, exactly as it was.
C2_DuplicateAddRefused ==
    (last.op = "add" /\ Holds(Persisted(last.before), last.arg))
        => /\ ReturnedBool(FALSE)
           /\ localStorage = last.before
           /\ Len(Persisted(localStorage).a) = Len(Persisted(last.before).a)

\* C2 witness: a refused add of a record that differs from the stored one of
\* the same (title, date) in another field
C2_Witness ==
    /\ last.op = "add"
    /\ ReturnedBool(FALSE)
    /\ Holds(Persisted(last.before), last.arg)
    /\ \A i \in 1..Len(Persisted(last.before).a) :
            Persisted(last.before).a[i] # last.arg
    /\ Len(Persisted(localStorage).a) >= 2

\* C3: an add of a record whose (title, date) pair is not stored returns true,
\* and the persisted list afterwards is that record followed by the records
\* stored before, in their order.
C3_NewAddPrepends ==
    (last.op = "add" /\ ~Holds(Persisted(last.before), last.arg))
        => /\ ReturnedBool(TRUE)
           /\ Persisted(localStorage) =
                 JArr(<<last.arg>> \o Persisted(last.before).a)

\* C3 witness: an accepted add in front of two older records
C3_Witness ==
    /\ last.op = "add"
    /\ ReturnedBool(TRUE)
    /\ Len(Persisted(last.before).a) = 2
    /\ Persisted(localStorage).a[1] = last.arg

\* a text that encodes a bookmark list: an array of records with a string
\* title and a string date
EncodesBookmarkList(store) ==
    /\ store.has
    /\ JsonParse(store.raw).ok
    /\ LET v == JsonParse(store.raw).v IN
       IF v.t # "arr" THEN FALSE
       ELSE \A i \in 1..Len(v.a) :
               /\ GetProp(v.a[i], "title").t = "str"
               /\ GetProp(v.a[i], "date").t = "str"

\* C4: for every content of the storage key, list() returns an ordered
\* sequence without throwing: the empty one when the key is absent or its
\* text does not encode a bookmark list, the persisted list otherwise.
C4_ListAlwaysSequence ==
    last.op = "list"
        => /\ last.out = "return"
           /\ last.v.t = "arr"
           /\ IF EncodesBookmarkList(last.before)
              THEN last.v = JsonParse(last.before.raw).v
              ELSE last.v = JArr(<<>>)

\* a record whose add returned true since the last clear is not stored
LostUpdate ==
    \E e \in added :
        LET list == Persisted(localStorage) IN
        \A i \in 1..Len(list.a) : list.a[i] # e

\* C9: across tabs the store loses an accepted record or holds a duplicate
\* only after an add wrote a list it had read before another tab's write or
\* clear; adds that are not interleaved never produce either outcome.
C9_OnlyInterleavedAddsBreak ==
    (LostUpdate \/ HasDuplicate(Persisted(localStorage))) => raced

\* C9 witness: with every add finished, an accepted record is missing
C9_Witness ==
    /\ LostUpdate
    /\ \A t \in 1..MaxTabs : tabs[t].pc = "idle"
    /\ last.op = "add"
    /\ ReturnedBool(TRUE)

\* ------------------------------------------------------------------------
\* Properties of the quiz flow
\* ------------------------------------------------------------------------
Ids(questions) == [i \in 1..Len(questions) |-> questions[i].id]
ShownIds(ar) == [b \in 1..Len(ar.boxes) |-> ar.boxes[b].inputs[1].name]
AllDone == issued >= 1 /\ \A c \in 1..issued : calls[c].pc = "done"

\* C5: every loadQuiz call whose request failed, by a non-success status or
\* by a network failure, set the display to the failure message and let no
\* error out.
C5_FailedLoadShowsMessage ==
    \A c \in 1..MaxCalls :
        (calls[c].pc = "done" /\ calls[c].cause \in {"notok", "netfail"})
            => (calls[c].did = "message" /\ ~calls[c].threw)

\* the selected option of question i is its correct one: its text, read as an
\* integer, is the question's correct value
PickedCorrect(g, i) ==
    /\ g.picked[i] # 0
    /\ EqualsCorrect(g.questions[i].options[g.picked[i]], g.questions[i].correct)

\* C6: grading a rendered quiz of N questions reports the number of questions
\* whose selected option is the correct one: N when every question has its
\* correct option selected, 0 when nothing is selected, and never less than 0
\* or more than N.
C6_ScoreCountsCorrectSelections ==
    graded.via = "submit" =>
        LET N == Len(graded.questions)
            right == {i \in 1..N : PickedCorrect(graded, i)}
            score == graded.card.score
        IN  /\ graded.card.total = N
            /\ score = Cardinality(right)
            /\ 0 <= score /\ score <= N
            /\ (\A i \in 1..N : PickedCorrect(graded, i)) => score = N
            /\ (\A i \in 1..N : graded.picked[i] = 0) => score = 0

\* C6 witness: a quiz of two questions graded with both answered correctly
C6_Witness ==
    /\ graded.via = "submit"
    /\ graded.card = [score |-> 2, total |-> 2]
    /\ area.cards # <<>>
    /\ area.cards[Len(area.cards)] = graded.card
    /\ \A i \in 1..2 : PickedCorrect(graded, i)

\* C7: an operation that finds its page element missing ends without
\* throwing.
C7_MissingElementIsNoOp == dom.missing => ~dom.threw

Shows(ar, c) ==
    IF c.did = "message"
    THEN ar.text = FAIL_TEXT /\ ~ar.notice /\ ar.boxes = <<>> /\ ~ar.submit.has
    ELSE /\ c.did = "render"
         /\ ar.text = ""
         /\ ar.notice = (c.questions = <<>>)
         /\ ShownIds(ar) = Ids(c.questions)
         /\ ar.submit.has = (c.questions # <<>>)

====
